---- MODULE Spec2Model ----
(***************************************************************************)
(* A model of classgen's record extraction (src/src/classgen/Record.cpp     *)
(* and src/src/classgen/RecordImpl.cpp): the declaration gate CanProcess,   *)
(* the handlers HandleEnumDecl / HandleRecordDecl, the field walk           *)
(* AddBases / AddDataMembers / AddVirtualBases, the empty-record policy     *)
(* ShouldInlineEmptyRecord, and the vtable projection ParseVTable with      *)
(* GetThunkInfo.  Clang's AST, record layout and vtable layout are inputs:  *)
(* a declaration carries the answers Clang would give for it.               *)
(***************************************************************************)
EXTENDS Integers, Sequences, FiniteSets, TLC

VARIABLES
  inline_empty_structs, \* ParseConfig::inline_empty_structs
  error,                \* ParseResult::error
  enums,                \* ParseResult::enums
  records,              \* ParseResult::records
  m_processed,          \* ParseContextImpl::m_processed
  phase,                \* position of the ParseRecords run
  stream,               \* the declarations the front end delivers in this run
  call,                 \* the handler call made by the latest step, and its argument
  first                 \* history: per name, the definition of its first accepted visit

vars == <<inline_empty_structs, error, enums, records, m_processed, phase, stream, call, first>>

result == <<error, enums, records>>

-----------------------------------------------------------------------------
(* Bounds of the model. *)

NumNames == 2        \* distinct qualified names in a declaration stream
MaxBases == 2        \* direct non-virtual bases of a class
MaxVBases == 1       \* virtual bases of a class
MaxFields == 3       \* field declarations of a record
MaxComponents == 3   \* components of a vtable layout
MaxThunks == 2       \* entries of a vtable layout's thunk table
MaxTypeDepth == 2    \* type constructors nested in a member's type

NameTable == <<"A", "B", "C", "D">>
Names == {NameTable[i] : i \in 1..NumNames}

BaseNameTable == <<"P", "Q", "R", "S">>
VBaseNameTable == <<"V", "W", "X">>
FieldNameTable == <<"a", "b", "c", "d", "e">>

Range(s) == {s[i] : i \in 1..Len(s)}

NullDecl == [k |-> "null"]
NullVTable == [k |-> "null"]
NoPrimaryBase == ""

-----------------------------------------------------------------------------
(* Types (clang::QualType) and their flattening. *)

Builtin(name, c, v) == [k |-> "builtin", name |-> name, const |-> c, volatile |-> v]
RecordType(ref, c, v) == [k |-> "record", decl |-> ref, const |-> c, volatile |-> v]
PointerTo(t, c, v) == [k |-> "pointer", pointee |-> t, const |-> c, volatile |-> v]
ReferenceTo(t, rvalue) == [k |-> "reference", pointee |-> t, rvalue |-> rvalue,
                           const |-> FALSE, volatile |-> FALSE]
ArrayOf(t, n) == [k |-> "array", elem |-> t, size |-> n, const |-> t.const, volatile |-> t.volatile]
MemberPointerTo(cls, t, c, v) == [k |-> "memptr", class |-> cls, pointee |-> t,
                                  const |-> c, volatile |-> v]
FunctionType(params, ret) == [k |-> "function", params |-> params, ret |-> ret,
                              const |-> FALSE, volatile |-> FALSE]
AtomicOf(t, c, v) == [k |-> "atomic", value |-> t, const |-> c, volatile |-> v]
TypedefOf(name, t, c, v) == [k |-> "typedef", name |-> name, underlying |-> t,
                             const |-> c, volatile |-> v]

\* Qualifiers added to a canonical type: on an array they go to the element type.
RECURSIVE addQualifiers(_, _, _)
addQualifiers(t, c, v) ==
  IF t.k = "array"
    THEN [t EXCEPT !.elem = addQualifiers(t.elem, c, v),
                   !.const = @ \/ c, !.volatile = @ \/ v]
    ELSE [t EXCEPT !.const = @ \/ c, !.volatile = @ \/ v]

\* QualType::getCanonicalType: aliases are resolved, their qualifiers merged.
RECURSIVE getCanonicalType(_)
getCanonicalType(t) ==
  IF t.k = "typedef"
    THEN addQualifiers(getCanonicalType(t.underlying), t.const, t.volatile)
    ELSE t

\* QualType::getAsString on a canonical type.
RECURSIVE getAsString(_)
getAsString(type) ==
  LET t == getCanonicalType(type)
      quals == (IF t.const THEN "const " ELSE "") \o (IF t.volatile THEN "volatile " ELSE "")
      post == (IF t.const THEN " const" ELSE "") \o (IF t.volatile THEN " volatile" ELSE "")
  IN CASE t.k = "builtin" -> quals \o t.name
       [] t.k = "record" -> quals \o t.decl.name
       [] t.k = "pointer" -> getAsString(t.pointee) \o " *" \o post
       [] t.k = "reference" -> getAsString(t.pointee) \o (IF t.rvalue THEN " &&" ELSE " &")
       [] t.k = "array" -> getAsString(t.elem) \o "[" \o ToString(t.size) \o "]"
       [] t.k = "memptr" -> getAsString(t.pointee) \o " " \o getAsString(t.class) \o "::*" \o post
       [] t.k = "function" -> getAsString(t.ret) \o " (" \o ToString(Len(t.params)) \o ")"
       [] t.k = "atomic" -> quals \o "_Atomic(" \o getAsString(t.value) \o ")"

ComplexTypeName(name, c, v) == [kind |-> "TypeName", name |-> name, is_const |-> c, is_volatile |-> v]
ComplexTypePointer(p) == [kind |-> "Pointer", pointee_type |-> p]
ComplexTypeArray(e, n) == [kind |-> "Array", element_type |-> e, size |-> n]
ComplexTypeFunction(ps, r) == [kind |-> "Function", param_types |-> ps, return_type |-> r]
ComplexTypeMemberPointer(c, p, repr) == [kind |-> "MemberPointer", class_type |-> c,
                                         pointee_type |-> p, repr |-> repr]
ComplexTypeAtomic(t) == [kind |-> "Atomic", value_type |-> t]

\* type.removeLocalFastQualifiers()
removeLocalFastQualifiers(t) == [t EXCEPT !.const = FALSE, !.volatile = FALSE]

\* A flattening without the case of clang::ReferenceType: a reference is a leaf.
RECURSIVE TranslateToComplexType_ReferenceIsLeaf(_)
TranslateToComplexType_ReferenceIsLeaf(qualtype) ==
  LET type == getCanonicalType(qualtype)
  IN CASE type.k = "array" ->
            ComplexTypeArray(TranslateToComplexType_ReferenceIsLeaf(type.elem), type.size)
       [] type.k = "memptr" ->
            ComplexTypeMemberPointer(TranslateToComplexType_ReferenceIsLeaf(type.class),
                                     TranslateToComplexType_ReferenceIsLeaf(type.pointee),
                                     getAsString(type))
       [] type.k = "pointer" ->
            ComplexTypePointer(TranslateToComplexType_ReferenceIsLeaf(type.pointee))
       [] type.k = "function" ->
            ComplexTypeFunction([i \in 1..Len(type.params) |->
                                   TranslateToComplexType_ReferenceIsLeaf(type.params[i])],
                                TranslateToComplexType_ReferenceIsLeaf(type.ret))
       [] type.k = "atomic" ->
            ComplexTypeAtomic(TranslateToComplexType_ReferenceIsLeaf(type.value))
       [] OTHER ->
            ComplexTypeName(getAsString(removeLocalFastQualifiers(type)),
                            type.const, type.volatile)

\* A flattening that looks through _Atomic: no Atomic node is built.
RECURSIVE TranslateToComplexType_AtomicTransparent(_)
TranslateToComplexType_AtomicTransparent(qualtype) ==
  LET type == getCanonicalType(qualtype)
  IN CASE type.k = "array" ->
            ComplexTypeArray(TranslateToComplexType_AtomicTransparent(type.elem), type.size)
       [] type.k = "memptr" ->
            ComplexTypeMemberPointer(TranslateToComplexType_AtomicTransparent(type.class),
                                     TranslateToComplexType_AtomicTransparent(type.pointee),
                                     getAsString(type))
       [] type.k = "pointer" ->
            ComplexTypePointer(TranslateToComplexType_AtomicTransparent(type.pointee))
       [] type.k = "reference" ->
            ComplexTypePointer(TranslateToComplexType_AtomicTransparent(type.pointee))
       [] type.k = "function" ->
            ComplexTypeFunction([i \in 1..Len(type.params) |->
                                   TranslateToComplexType_AtomicTransparent(type.params[i])],
                                TranslateToComplexType_AtomicTransparent(type.ret))
       [] type.k = "atomic" -> TranslateToComplexType_AtomicTransparent(type.value)
       [] OTHER ->
            ComplexTypeName(getAsString(removeLocalFastQualifiers(type)),
                            type.const, type.volatile)

RECURSIVE TranslateToComplexType(_)
TranslateToComplexType(qualtype) ==
  LET type == getCanonicalType(qualtype)
  IN CASE type.k = "array" ->
            ComplexTypeArray(TranslateToComplexType(type.elem), type.size)
       [] type.k = "memptr" ->
            ComplexTypeMemberPointer(TranslateToComplexType(type.class),
                                     TranslateToComplexType(type.pointee), getAsString(type))
       [] type.k = "pointer" -> ComplexTypePointer(TranslateToComplexType(type.pointee))
       [] type.k = "reference" -> ComplexTypePointer(TranslateToComplexType(type.pointee))
       [] type.k = "function" ->
            ComplexTypeFunction([i \in 1..Len(type.params) |->
                                   TranslateToComplexType(type.params[i])],
                                TranslateToComplexType(type.ret))
       [] type.k = "atomic" -> ComplexTypeAtomic(TranslateToComplexType(type.value))
       [] OTHER ->
            ComplexTypeName(getAsString(removeLocalFastQualifiers(type)),
                            type.const, type.volatile)

-----------------------------------------------------------------------------
(* Declarations.  A record definition D answers what Clang answers for it:  *)
(*   D.bases    CXXRD->bases(), direct bases in declaration order            *)
(*   D.vbases   CXXRD->vbases(), the virtual bases                           *)
(*   D.fields   D->fields(), unnamed bit-fields included                     *)
(*   D.layout   ctx.getASTRecordLayout(D); fieldOffset has one entry (bits)  *)
(*              per field declaration, indexed by FieldDecl::getFieldIndex   *)
(*   D.vtableLayout  ItaniumVTableContext::getVTableLayout(D)                *)
(* A reference to another record (a base, a member's type) carries the      *)
(* answers ShouldInlineEmptyRecord asks of it.                              *)

ClassRef(name, isCXX, dataSize, dynamic, hasBases, hasVBases, hasDirectFields) ==
  [name |-> name, isCXX |-> isCXX, dataSize |-> dataSize, dynamic |-> dynamic,
   hasBases |-> hasBases, hasVBases |-> hasVBases, hasDirectFields |-> hasDirectFields]

\* CXXRecordDecl::hasDirectFields: unnamed bit-fields are not counted.
hasDirectFields(D) == \E i \in 1..Len(D.fields) : ~D.fields[i].unnamedBitfield

\* The same answers, for a definition D itself.
RefOf(D) ==
  ClassRef(D.name, D.isCXX, D.layout.dataSize, D.dynamic,
           D.bases # <<>>, D.vbases # <<>>, hasDirectFields(D))

\* TagDecl::getDefinition
getDefinition(decl) == decl.definition

\* ctx.getTypeDeclType(D).getAsString(policy)
getTypeDeclTypeName(D) == D.name

-----------------------------------------------------------------------------
(* The empty-record policy. *)

ShouldInlineEmptyRecord(inlining, D) ==
  IF ~inlining THEN FALSE
  ELSE IF D.dataSize = 0 THEN TRUE
  ELSE IF ~D.isCXX THEN TRUE
  ELSE ~D.dynamic /\ ~D.hasBases /\ ~D.hasVBases /\ ~D.hasDirectFields

-----------------------------------------------------------------------------
(* The field walk. *)

VTablePointerField(offset) == [offset |-> offset, data |-> [k |-> "VTablePointer"]]
BaseField(offset, primary, virtual, type_name) ==
  [offset |-> offset,
   data |-> [k |-> "Base", is_primary |-> primary, is_virtual |-> virtual,
             type_name |-> type_name]]
MemberVariableField(offset, width, type, type_name, name) ==
  [offset |-> offset,
   data |-> [k |-> "MemberVariable", bitfield_width |-> width, type |-> type,
             type_name |-> type_name, name |-> name]]

\* An insertion that puts x before the elements of equal offset: an unstable sort.
RECURSIVE InsertByOffset_Unstable(_, _, _)
InsertByOffset_Unstable(sorted, x, off) ==
  IF sorted = <<>> THEN <<x>>
  ELSE IF off[x.name] <= off[Head(sorted).name]
         THEN <<x>> \o sorted
         ELSE <<Head(sorted)>> \o InsertByOffset_Unstable(Tail(sorted), x, off)

\* llvm::stable_sort with comparator off[L] < off[R], as a stable insertion sort.
RECURSIVE InsertByOffset(_, _, _)
InsertByOffset(sorted, x, off) ==
  IF sorted = <<>> THEN <<x>>
  ELSE IF off[x.name] < off[Head(sorted).name]
         THEN <<x>> \o sorted
         ELSE <<Head(sorted)>> \o InsertByOffset(Tail(sorted), x, off)

RECURSIVE stable_sort(_, _)
stable_sort(s, off) ==
  IF s = <<>> THEN <<>>
  ELSE InsertByOffset(stable_sort(SubSeq(s, 1, Len(s) - 1), off), s[Len(s)], off)

\* The loop over the sorted bases without the test of ShouldInlineEmptyRecord.
RECURSIVE EmitBases_KeepsEmpty(_, _, _, _, _, _, _)
EmitBases_KeepsEmpty(fields, bases, base_offset, off, primary_base, virtual, inlining) ==
  IF bases = <<>> THEN fields
  ELSE LET base == Head(bases)
           offset == base_offset + off[base.name]
       IN EmitBases_KeepsEmpty(
            Append(fields, BaseField(offset, base.name = primary_base, virtual,
                                     getTypeDeclTypeName(base))),
            Tail(bases), base_offset, off, primary_base, virtual, inlining)

\* The loop of AddBases / AddVirtualBases over the sorted bases.
RECURSIVE EmitBases(_, _, _, _, _, _, _)
EmitBases(fields, bases, base_offset, off, primary_base, virtual, inlining) ==
  IF bases = <<>> THEN fields
  ELSE LET base == Head(bases)
           offset == base_offset + off[base.name]
           next == IF ShouldInlineEmptyRecord(inlining, base)
                     THEN fields
                     ELSE Append(fields, BaseField(offset, base.name = primary_base, virtual,
                                                   getTypeDeclTypeName(base)))
       IN EmitBases(next, Tail(bases), base_offset, off, primary_base, virtual, inlining)

\* The non-virtual bases of CXXRD->bases(), in declaration order.
RECURSIVE NonVirtualBases(_)
NonVirtualBases(specs) ==
  IF specs = <<>> THEN <<>>
  ELSE (IF Head(specs).virtual THEN <<>> ELSE <<Head(specs).decl>>)
         \o NonVirtualBases(Tail(specs))

\* An AddBases that emits the vtable pointer for every dynamic class, whether
\* or not a primary base carries it.
AddBases_VptrWhenDynamic(fields, base_offset, D, inlining) ==
  IF ~D.isCXX THEN fields
  ELSE LET primary_base == D.layout.primaryBase
           withVptr == IF D.dynamic
                         THEN Append(fields, VTablePointerField(base_offset))
                         ELSE fields
           bases == stable_sort(NonVirtualBases(D.bases), D.layout.baseOffset)
       IN EmitBases(withVptr, bases, base_offset, D.layout.baseOffset, primary_base,
                    FALSE, inlining)

AddBases(fields, base_offset, D, inlining) ==
  IF ~D.isCXX THEN fields
  ELSE LET primary_base == D.layout.primaryBase
           withVptr == IF D.dynamic /\ primary_base = NoPrimaryBase
                         THEN Append(fields, VTablePointerField(base_offset))
                         ELSE fields
           bases == stable_sort(NonVirtualBases(D.bases), D.layout.baseOffset)
       IN EmitBases(withVptr, bases, base_offset, D.layout.baseOffset, primary_base,
                    FALSE, inlining)

AddVirtualBases(fields, base_offset, D, inlining) ==
  IF ~D.isCXX THEN fields
  ELSE LET vbases == stable_sort(D.vbases, D.layout.vbaseOffset)
       IN EmitBases(fields, vbases, base_offset, D.layout.vbaseOffset,
                    D.layout.primaryBase, TRUE, inlining)

\* A conversion that counts 64-bit words instead of bytes.
toCharUnitsFromBits_Words(bits) == bits \div 64

\* ASTContext::toCharUnitsFromBits
toCharUnitsFromBits(bits) == bits \div 8

\* Type::getAsRecordDecl: the record a (possibly qualified, aliased) record type names.
IsRecordType(type) == getCanonicalType(type).k = "record"
getAsRecordDecl(type) == getCanonicalType(type).decl

\* ctx.getTypeDeclType(field_record): the unqualified type of the record.
getTypeDeclType(ref) == RecordType(ref, FALSE, FALSE)

\* The loop of AddDataMembers from declaration i on; field_idx counts 0-based.
RECURSIVE DataMembersFrom(_, _, _, _, _, _)
DataMembersFrom(fields, i, field_idx, base_offset, D, inlining) ==
  IF i > Len(D.fields) THEN fields
  ELSE LET field_decl == D.fields[i]
       IN IF field_decl.unnamedBitfield
            THEN DataMembersFrom(fields, i + 1, field_idx, base_offset, D, inlining)
            ELSE LET rel_offset_in_bits == D.layout.fieldOffset[field_idx + 1]
                     offset == base_offset + toCharUnitsFromBits(rel_offset_in_bits)
                     next ==
                       IF IsRecordType(field_decl.type)
                         THEN LET field_record == getAsRecordDecl(field_decl.type)
                              IN IF D.tagKind = "union"
                                    \/ ~ShouldInlineEmptyRecord(inlining, field_record)
                                   THEN Append(fields,
                                          MemberVariableField(offset, 0,
                                            TranslateToComplexType(getTypeDeclType(field_record)),
                                            getAsString(getTypeDeclType(field_record)),
                                            field_decl.name))
                                   ELSE fields
                         ELSE Append(fields,
                                MemberVariableField(offset,
                                  IF field_decl.bitfield THEN field_decl.bitWidth ELSE 0,
                                  TranslateToComplexType(field_decl.type),
                                  getAsString(field_decl.type), field_decl.name))
                 IN DataMembersFrom(next, i + 1, field_idx + 1, base_offset, D, inlining)

AddDataMembers(fields, base_offset, D, inlining) ==
  DataMembersFrom(fields, 1, 0, base_offset, D, inlining)

AddFields(fields, base_offset, D, inlining) ==
  AddVirtualBases(AddDataMembers(AddBases(fields, base_offset, D, inlining),
                                 base_offset, D, inlining),
                  base_offset, D, inlining)

-----------------------------------------------------------------------------
(* The vtable projection. *)

\* The switch of GetCStyleOperatorName, one row per case that returns a token.
OperatorTokens ==
  "OO_New" :> "__op_new" @@
  "OO_Delete" :> "__op_delete" @@
  "OO_Array_New" :> "__op_array_new" @@
  "OO_Array_Delete" :> "__op_array_delete" @@
  "OO_Plus" :> "__op_plus" @@
  "OO_Minus" :> "__op_minus" @@
  "OO_Star" :> "__op_star" @@
  "OO_Slash" :> "__op_slash" @@
  "OO_Percent" :> "__op_percent" @@
  "OO_Caret" :> "__op_caret" @@
  "OO_Amp" :> "__op_amp" @@
  "OO_Pipe" :> "__op_pipe" @@
  "OO_Tilde" :> "__op_tilde" @@
  "OO_Exclaim" :> "__op_exclaim" @@
  "OO_Equal" :> "__op_eq" @@
  "OO_Less" :> "__op_lt" @@
  "OO_Greater" :> "__op_gt;" @@
  "OO_PlusEqual" :> "__op_plus_equal" @@
  "OO_MinusEqual" :> "__op_minus_equal" @@
  "OO_StarEqual" :> "__op_star_equal" @@
  "OO_SlashEqual" :> "__op_slash_equal" @@
  "OO_PercentEqual" :> "__op_percent_equal" @@
  "OO_CaretEqual" :> "__op_caret_equal" @@
  "OO_AmpEqual" :> "__op_amp_equal" @@
  "OO_PipeEqual" :> "__op_pipe_equal" @@
  "OO_LessLess" :> "__op_lt_lt" @@
  "OO_GreaterGreater" :> "__op_gt_gt" @@
  "OO_LessLessEqual" :> "__op_lt_lt_eq" @@
  "OO_GreaterGreaterEqual" :> "__op_gt_gt_eq" @@
  "OO_EqualEqual" :> "__op_eq_eq" @@
  "OO_ExclaimEqual" :> "__op_exclaim_eq" @@
  "OO_LessEqual" :> "__op_leq" @@
  "OO_GreaterEqual" :> "__op_geq" @@
  "OO_Spaceship" :> "__op_spaceship" @@
  "OO_AmpAmp" :> "__op_amp_amp" @@
  "OO_PipePipe" :> "__op_pipe_pipe" @@
  "OO_PlusPlus" :> "__op_plus_plus" @@
  "OO_MinusMinus" :> "__op_minus_minus" @@
  "OO_Comma" :> "__op_comma" @@
  "OO_ArrowStar" :> "__op_arrow_star" @@
  "OO_Arrow" :> "__op_arrow" @@
  "OO_Call" :> "__op_call" @@
  "OO_Subscript" :> "__op_subscript" @@
  "OO_Conditional" :> "__op_conditional" @@
  "OO_Coawait" :> "__op_coawait"

\* func is a method declaration: func.operator is its getOverloadedOperator(),
\* "OO_None" when it is no overloaded operator.
GetCStyleOperatorName(func) ==
  IF func.operator = "OO_None" THEN ""
  ELSE IF func.operator \in DOMAIN OperatorTokens THEN OperatorTokens[func.operator]
  ELSE ""

\* fmt::format("{:#x}", n) for a signed 64-bit n.
HexDigit == <<"0", "1", "2", "3", "4", "5", "6", "7", "8", "9", "a", "b", "c", "d", "e", "f">>

RECURSIVE HexDigits(_)
HexDigits(n) ==
  IF n < 16 THEN HexDigit[n + 1] ELSE HexDigits(n \div 16) \o HexDigit[(n % 16) + 1]

FormatHex(n) == IF n < 0 THEN "-0x" \o HexDigits(-n) ELSE "0x" \o HexDigits(n)

NullThunk == [k |-> "null"]

ThunkInfo(retNV, retVBOO, thisNV, thisVCOO) ==
  [Return |-> [NonVirtual |-> retNV, VBaseOffsetOffset |-> retVBOO],
   This |-> [NonVirtual |-> thisNV, VCallOffsetOffset |-> thisVCOO]]

\* clang::ReturnAdjustment::isEmpty, ThisAdjustment::isEmpty, ThunkInfo::isEmpty
ReturnIsEmpty(thunk) == thunk.Return.NonVirtual = 0 /\ thunk.Return.VBaseOffsetOffset = 0
ThisIsEmpty(thunk) == thunk.This.NonVirtual = 0 /\ thunk.This.VCallOffsetOffset = 0
ThunkIsEmpty(thunk) == ThisIsEmpty(thunk) /\ ReturnIsEmpty(thunk)

\* llvm::lower_bound over thunks[first .. first + count), positions counted from 0:
\* the first position whose key is not less than idx.
RECURSIVE lower_bound(_, _, _, _)
lower_bound(thunks, idx, start, count) ==
  IF count <= 0 THEN start
  ELSE LET step == count \div 2
           it == start + step
       IN IF thunks[it + 1].first < idx
            THEN lower_bound(thunks, idx, it + 1, count - (step + 1))
            ELSE lower_bound(thunks, idx, start, step)

\* GetThunkInfo without the test `it->first != idx`.
GetThunkInfo_NoKeyCheck(layout, idx) ==
  LET thunks == layout.thunks
      it == lower_bound(thunks, idx, 0, Len(thunks))
  IN IF it = Len(thunks) THEN NullThunk ELSE thunks[it + 1].second

GetThunkInfo(layout, idx) ==
  LET thunks == layout.thunks
      it == lower_bound(thunks, idx, 0, Len(thunks))
  IN IF it = Len(thunks) THEN NullThunk
     ELSE IF thunks[it + 1].first # idx THEN NullThunk
     ELSE thunks[it + 1].second

IsFunctionKind(kind) ==
  kind \in {"CK_FunctionPointer", "CK_CompleteDtorPointer", "CK_DeletingDtorPointer",
            "CK_UnusedFunctionPointer"}

\* The thunk block that writes the this adjustment of a thunk into the return
\* adjustment fields when the thunk has no return adjustment.
ThunkAdjustments_ThisIntoReturn(thunk) ==
  LET isThunk == thunk # NullThunk /\ ~ThunkIsEmpty(thunk)
  IN [return_adjustment |->
        IF ~isThunk THEN 0
        ELSE IF ~ReturnIsEmpty(thunk) THEN thunk.Return.NonVirtual ELSE thunk.This.NonVirtual,
      return_adjustment_vbase_offset_offset |->
        IF ~isThunk THEN 0
        ELSE IF ~ReturnIsEmpty(thunk) THEN thunk.Return.VBaseOffsetOffset
        ELSE thunk.This.VCallOffsetOffset,
      this_adjustment |->
        IF isThunk /\ ~ThisIsEmpty(thunk) THEN thunk.This.NonVirtual ELSE 0,
      this_adjustment_vcall_offset_offset |->
        IF isThunk /\ ~ThisIsEmpty(thunk) THEN thunk.This.VCallOffsetOffset ELSE 0]

\* "Fill thunk information if necessary": the four adjustment fields of an
\* entry, which are 0 by default, after the block under
\* `if (thunk && !thunk->isEmpty())`.
ThunkAdjustments(thunk) ==
  LET isThunk == thunk # NullThunk /\ ~ThunkIsEmpty(thunk)
  IN [return_adjustment |->
        IF isThunk /\ ~ReturnIsEmpty(thunk) THEN thunk.Return.NonVirtual ELSE 0,
      return_adjustment_vbase_offset_offset |->
        IF isThunk /\ ~ReturnIsEmpty(thunk) THEN thunk.Return.VBaseOffsetOffset ELSE 0,
      this_adjustment |->
        IF isThunk /\ ~ThisIsEmpty(thunk) THEN thunk.This.NonVirtual ELSE 0,
      this_adjustment_vcall_offset_offset |->
        IF isThunk /\ ~ThisIsEmpty(thunk) THEN thunk.This.VCallOffsetOffset ELSE 0]

\* The function-pointer case of the switch in ParseVTable, for component idx.
FunctionPointerEntry(layout, idx, component) ==
  LET func == component.func
      name == IF func.name = "" /\ func.operator # "OO_None"
                THEN GetCStyleOperatorName(func)
                ELSE func.name
      thunk == GetThunkInfo(layout, idx)
      isThunk == thunk # NullThunk /\ ~ThunkIsEmpty(thunk)
      repr0 == func.pretty
      repr1 == IF component.kind = "CK_CompleteDtorPointer" THEN repr0 \o " [complete]" ELSE repr0
      repr2 == IF component.kind = "CK_DeletingDtorPointer" THEN repr1 \o " [deleting]" ELSE repr1
      repr3 == IF func.isPure THEN repr2 \o " [pure]" ELSE repr2
      repr4 == IF isThunk /\ ~ReturnIsEmpty(thunk)
                 THEN repr3 \o " [return adjustment: " \o FormatHex(thunk.Return.NonVirtual)
                        \o (IF thunk.Return.VBaseOffsetOffset # 0
                              THEN ", vbase offset offset: "
                                     \o FormatHex(thunk.Return.VBaseOffsetOffset)
                              ELSE "")
                        \o "]"
                 ELSE repr3
      repr5 == IF isThunk /\ ~ThisIsEmpty(thunk)
                 THEN repr4 \o " [this adjustment: " \o FormatHex(thunk.This.NonVirtual)
                        \o (IF thunk.This.VCallOffsetOffset # 0
                              THEN ", vcall offset offset: "
                                     \o FormatHex(thunk.This.VCallOffsetOffset)
                              ELSE "")
                        \o "]"
                 ELSE repr4
      tag == CASE component.kind = "CK_CompleteDtorPointer" -> "CompleteDtorPointer"
               [] component.kind = "CK_DeletingDtorPointer" -> "DeletingDtorPointer"
               [] OTHER -> "FunctionPointer"
  IN [tag |-> tag,
      is_thunk |-> isThunk,
      is_const |-> func.isConst,
      return_adjustment |-> ThunkAdjustments(thunk).return_adjustment,
      return_adjustment_vbase_offset_offset |->
        ThunkAdjustments(thunk).return_adjustment_vbase_offset_offset,
      this_adjustment |-> ThunkAdjustments(thunk).this_adjustment,
      this_adjustment_vcall_offset_offset |->
        ThunkAdjustments(thunk).this_adjustment_vcall_offset_offset,
      repr |-> repr5,
      function_name |-> name,
      type |-> TranslateToComplexType(func.type)]

\* An iteration that skips unused function pointers.
TranslateComponent_DropsUnused(layout, idx, component) ==
  CASE component.kind = "CK_VCallOffset" -> <<[tag |-> "VCallOffset", offset |-> component.offset]>>
    [] component.kind = "CK_VBaseOffset" -> <<[tag |-> "VBaseOffset", offset |-> component.offset]>>
    [] component.kind = "CK_OffsetToTop" -> <<[tag |-> "OffsetToTop", offset |-> component.offset]>>
    [] component.kind = "CK_RTTI" -> <<[tag |-> "RTTI", class_name |-> component.rtti]>>
    [] component.kind = "CK_UnusedFunctionPointer" -> <<>>
    [] IsFunctionKind(component.kind) -> <<FunctionPointerEntry(layout, idx, component)>>

\* An iteration that emplaces the entry of a destructor as an ordinary
\* FunctionPointer.
TranslateComponent_DtorsAsOrdinary(layout, idx, component) ==
  CASE component.kind = "CK_VCallOffset" -> <<[tag |-> "VCallOffset", offset |-> component.offset]>>
    [] component.kind = "CK_VBaseOffset" -> <<[tag |-> "VBaseOffset", offset |-> component.offset]>>
    [] component.kind = "CK_OffsetToTop" -> <<[tag |-> "OffsetToTop", offset |-> component.offset]>>
    [] component.kind = "CK_RTTI" -> <<[tag |-> "RTTI", class_name |-> component.rtti]>>
    [] IsFunctionKind(component.kind) ->
         <<[FunctionPointerEntry(layout, idx, component) EXCEPT !.tag = "FunctionPointer"]>>

\* One iteration of the loop of ParseVTable: what component idx appends.
TranslateComponent(layout, idx, component) ==
  CASE component.kind = "CK_VCallOffset" -> <<[tag |-> "VCallOffset", offset |-> component.offset]>>
    [] component.kind = "CK_VBaseOffset" -> <<[tag |-> "VBaseOffset", offset |-> component.offset]>>
    [] component.kind = "CK_OffsetToTop" -> <<[tag |-> "OffsetToTop", offset |-> component.offset]>>
    [] component.kind = "CK_RTTI" -> <<[tag |-> "RTTI", class_name |-> component.rtti]>>
    [] IsFunctionKind(component.kind) -> <<FunctionPointerEntry(layout, idx, component)>>

\* The loop of ParseVTable from component idx (0-based) on.
RECURSIVE CopyComponents(_, _, _)
CopyComponents(components, layout, idx) ==
  IF idx >= Len(layout.components) THEN components
  ELSE CopyComponents(components \o TranslateComponent(layout, idx, layout.components[idx + 1]),
                      layout, idx + 1)

\* A ParseVTable without the test of isDynamicClass().
ParseVTable_AlwaysBuilds(D) ==
  IF ~D.itanium THEN NullVTable
  ELSE [k |-> "vtable", components |-> CopyComponents(<<>>, D.vtableLayout, 0)]

ParseVTable(D) ==
  IF ~D.itanium THEN NullVTable
  ELSE IF ~D.dynamic THEN NullVTable
  ELSE [k |-> "vtable", components |-> CopyComponents(<<>>, D.vtableLayout, 0)]

-----------------------------------------------------------------------------
(* The declaration gate and the two handlers, as functions of the state.    *)

\* CanProcess without the m_processed.contains(name) test.
CanProcess_NoDedup(D, processed) ==
  IF D = NullDecl THEN FALSE
  ELSE IF D.invalid THEN FALSE
  ELSE IF ~D.complete THEN FALSE
  ELSE IF D.templated THEN FALSE
  ELSE TRUE

\* CanProcess without the isTemplated() test.
CanProcess_TemplatesPass(D, processed) ==
  IF D = NullDecl THEN FALSE
  ELSE IF D.invalid THEN FALSE
  ELSE IF ~D.complete THEN FALSE
  ELSE IF getTypeDeclTypeName(D) \in processed THEN FALSE
  ELSE TRUE

\* CanProcess answers whether D is to be extracted; CanProcessSet is the
\* processed-name set it leaves behind.
CanProcess(D, processed) ==
  IF D = NullDecl THEN FALSE
  ELSE IF D.invalid THEN FALSE
  ELSE IF ~D.complete THEN FALSE
  ELSE IF D.templated THEN FALSE
  ELSE IF getTypeDeclTypeName(D) \in processed THEN FALSE
  ELSE TRUE

\* CanProcess without m_processed.insert(name).
CanProcessSet_NoInsert(D, processed) == processed

CanProcessSet(D, processed) ==
  IF CanProcess(D, processed) THEN processed \cup {getTypeDeclTypeName(D)} ELSE processed

\* The Enum that HandleEnumDecl builds from the definition D.
BuildEnum(D) ==
  [is_scoped |-> D.scoped,
   is_anonymous |-> (D.identifier = ""),
   name |-> getTypeDeclTypeName(D),
   underlying_type_name |-> getAsString(D.integerType),
   underlying_type_size |-> D.integerTypeSize,
   enumerators |-> [i \in 1..Len(D.enumerators) |->
                      [identifier |-> D.enumerators[i].name,
                       value |-> ToString(D.enumerators[i].initVal)]]]

\* Record::Kind from D->getTagKind()
RecordKind(tagKind) ==
  CASE tagKind = "struct" -> "Struct"
    [] tagKind \in {"interface", "class"} -> "Class"
    [] tagKind = "union" -> "Union"
    [] OTHER -> "Struct"

\* The Record that HandleRecordDecl builds from the definition D.
BuildRecord(D, inlining) ==
  [is_anonymous |-> D.anonymous,
   kind |-> RecordKind(D.tagKind),
   name |-> getTypeDeclTypeName(D),
   size |-> D.layout.size,
   data_size |-> D.layout.dataSize,
   alignment |-> D.layout.alignment,
   fields |-> AddFields(<<>>, 0, D, inlining),
   vtable |-> IF D.isCXX THEN ParseVTable(D) ELSE NullVTable]

\* A HandleEnumDecl that puts the new Enum at the front of the list.
EnumsAfterHandleEnumDecl_Prepends(decl, es, processed) ==
  LET D == getDefinition(decl)
  IN IF ~CanProcess(D, processed) THEN es ELSE <<BuildEnum(D)>> \o es

\* The enum list after HandleEnumDecl(decl).
EnumsAfterHandleEnumDecl(decl, es, processed) ==
  LET D == getDefinition(decl)
  IN IF ~CanProcess(D, processed) THEN es ELSE Append(es, BuildEnum(D))

\* HandleRecordDecl without the early return for an empty record.
RecordsAfterHandleRecordDecl_EmitsEmpty(decl, rs, processed, inlining) ==
  LET D == getDefinition(decl)
  IN IF ~CanProcess(D, processed) THEN rs ELSE Append(rs, BuildRecord(D, inlining))

\* The record list after HandleRecordDecl(decl).
RecordsAfterHandleRecordDecl(decl, rs, processed, inlining) ==
  LET D == getDefinition(decl)
  IN IF ~CanProcess(D, processed) THEN rs
     ELSE IF ShouldInlineEmptyRecord(inlining, RefOf(D)) THEN rs
     ELSE Append(rs, BuildRecord(D, inlining))

-----------------------------------------------------------------------------
(* Inputs: the declarations a front end can deliver. *)

IntType == Builtin("int", FALSE, FALSE)
VoidType == Builtin("void", FALSE, FALSE)
UCharType == Builtin("unsigned char", FALSE, FALSE)

Layout(size, dataSize, alignment, primaryBase, baseOffset, vbaseOffset, fieldOffset) ==
  [size |-> size, dataSize |-> dataSize, alignment |-> alignment,
   primaryBase |-> primaryBase, baseOffset |-> baseOffset, vbaseOffset |-> vbaseOffset,
   fieldOffset |-> fieldOffset]

NoOffsets == [n \in {} |-> 0]
NoVTableLayout == [components |-> <<>>, thunks |-> <<>>]

RecordDef(name, isCXX, tagKind, dynamic, bases, vbases, fields, layout, vtableLayout) ==
  [k |-> "record", name |-> name, invalid |-> FALSE, complete |-> TRUE, templated |-> FALSE,
   itanium |-> TRUE, anonymous |-> FALSE, isCXX |-> isCXX, tagKind |-> tagKind,
   dynamic |-> dynamic, bases |-> bases, vbases |-> vbases, fields |-> fields,
   layout |-> layout, vtableLayout |-> vtableLayout]

EnumDef(name, identifier, scoped, integerType, integerTypeSize, enumerators) ==
  [k |-> "enum", name |-> name, invalid |-> FALSE, complete |-> TRUE, templated |-> FALSE,
   identifier |-> identifier, scoped |-> scoped, integerType |-> integerType,
   integerTypeSize |-> integerTypeSize, enumerators |-> enumerators]

\* A declaration as the visitor hands it over: its definition is what getDefinition finds.
Decl(name, definition) == [name |-> name, definition |-> definition]

FieldDecl(name, type) ==
  [name |-> name, unnamedBitfield |-> FALSE, bitfield |-> FALSE, bitWidth |-> 0, type |-> type]
BitFieldDecl(name, type, width) ==
  [name |-> name, unnamedBitfield |-> (name = ""), bitfield |-> TRUE, bitWidth |-> width,
   type |-> type]

BaseSpecifier(ref, virtual) == [decl |-> ref, virtual |-> virtual]

\* Shapes of the records a base or a member's type can name.
RefShape(id, name) ==
  CASE id = "E1" -> ClassRef(name, TRUE, 1, FALSE, FALSE, FALSE, FALSE)  \* struct E {};
    [] id = "E0" -> ClassRef(name, TRUE, 0, FALSE, FALSE, FALSE, FALSE)  \* empty, data size 0
    [] id = "EB" -> ClassRef(name, TRUE, 1, FALSE, TRUE, FALSE, FALSE)   \* struct X : E {};
    [] id = "N4" -> ClassRef(name, TRUE, 4, FALSE, FALSE, FALSE, TRUE)   \* struct N { int n; };
    [] id = "Dyn" -> ClassRef(name, TRUE, 8, TRUE, FALSE, FALSE, FALSE)  \* only virtual functions
    [] id = "C0" -> ClassRef(name, FALSE, 0, FALSE, FALSE, FALSE, FALSE) \* C: struct Z {};
    [] id = "C4" -> ClassRef(name, FALSE, 4, FALSE, FALSE, FALSE, TRUE)  \* C: struct N { int n; };

Method(name, operator, isConst, isPure, type, pretty) ==
  [name |-> name, operator |-> operator, isConst |-> isConst, isPure |-> isPure,
   type |-> type, pretty |-> pretty]

MethodF == Method("f", "OO_None", FALSE, FALSE, FunctionType(<<IntType>>, VoidType), "void f(int)")
MethodG == Method("g", "OO_None", TRUE, TRUE, FunctionType(<<>>, IntType), "int g() const")
MethodAssign ==
  Method("", "OO_Equal", FALSE, FALSE,
         FunctionType(<<ReferenceTo(Builtin("T", TRUE, FALSE), FALSE)>>,
                      ReferenceTo(Builtin("T", FALSE, FALSE), FALSE)),
         "T &operator=(const T &)")
MethodDtor == Method("", "OO_None", FALSE, FALSE, FunctionType(<<>>, VoidType), "~T()")
\* `virtual operator bool() const;`: a conversion function has no identifier
\* and is no overloaded operator.
MethodConv ==
  Method("", "OO_None", TRUE, FALSE, FunctionType(<<>>, Builtin("bool", FALSE, FALSE)),
         "operator bool() const")

OffsetComponent(kind, offset) == [kind |-> kind, offset |-> offset]
RTTIComponent(name) == [kind |-> "CK_RTTI", rtti |-> name]
FunctionComponent(kind, func) == [kind |-> kind, func |-> func]

ThunkEntry(idx, thunk) == [first |-> idx, second |-> thunk]

-----------------------------------------------------------------------------
(* The declaration stream of the handler-level specification: every name    *)
(* can be declared as an enum or as a record, in several shapes.            *)

StreamRecordShapes == {"CxxEmpty", "CStruct", "CxxStruct", "Dynamic"}

StreamRecordDef(name, shape) ==
  CASE shape = "CxxEmpty" ->     \* struct A {};
         RecordDef(name, TRUE, "struct", FALSE, <<>>, <<>>, <<>>,
                   Layout(1, 1, 1, NoPrimaryBase, NoOffsets, NoOffsets, <<>>), NoVTableLayout)
    [] shape = "CStruct" ->      \* C: struct A { int a; };
         RecordDef(name, FALSE, "struct", FALSE, <<>>, <<>>, <<FieldDecl("a", IntType)>>,
                   Layout(4, 4, 4, NoPrimaryBase, NoOffsets, NoOffsets, <<0>>), NoVTableLayout)
    [] shape = "CxxStruct" ->    \* struct A { int a; int : 8; int b; };
         RecordDef(name, TRUE, "struct", FALSE, <<>>, <<>>,
                   <<FieldDecl("a", IntType), BitFieldDecl("", IntType, 8),
                     FieldDecl("b", IntType)>>,
                   Layout(12, 12, 4, NoPrimaryBase, NoOffsets, NoOffsets, <<0, 32, 64>>),
                   NoVTableLayout)
    [] shape = "Dynamic" ->      \* class A : Empty { int x; virtual void f(int); };
         RecordDef(name, TRUE, "class", TRUE,
                   <<BaseSpecifier(RefShape("E1", "Empty"), FALSE)>>, <<>>,
                   <<FieldDecl("x", IntType)>>,
                   Layout(16, 12, 8, NoPrimaryBase, [n \in {"Empty"} |-> 0], NoOffsets, <<64>>),
                   [components |-> <<OffsetComponent("CK_OffsetToTop", 0), RTTIComponent(name),
                                     FunctionComponent("CK_FunctionPointer", MethodF)>>,
                    thunks |-> <<>>])

StreamEnumShapes == {"Color", "Plain"}

StreamEnumDef(name, shape) ==
  CASE shape = "Color" ->        \* enum class A : unsigned char { Red = 0, Green = 1 };
         EnumDef(name, name, TRUE, UCharType, 1,
                 <<[name |-> "Red", initVal |-> 0], [name |-> "Green", initVal |-> 1]>>)
    [] shape = "Plain" ->        \* enum A { X = -1 };
         EnumDef(name, name, FALSE, IntType, 4, <<[name |-> "X", initVal |-> -1]>>)

\* Declarations CanProcess turns away: no definition, invalid, incomplete, templated.
Rejected(D) ==
  {[D EXCEPT !.invalid = TRUE], [D EXCEPT !.complete = FALSE], [D EXCEPT !.templated = TRUE]}

StreamRecordDecls ==
  UNION {{Decl(n, NullDecl)}
           \cup {Decl(n, StreamRecordDef(n, sh)) : sh \in StreamRecordShapes}
           \cup {Decl(n, D) : D \in Rejected(StreamRecordDef(n, "CxxStruct"))}
         : n \in Names}

StreamEnumDecls ==
  UNION {{Decl(n, NullDecl)}
           \cup {Decl(n, StreamEnumDef(n, sh)) : sh \in StreamEnumShapes}
           \cup {Decl(n, [StreamEnumDef(n, "Color") EXCEPT !.templated = TRUE])}
         : n \in Names}

-----------------------------------------------------------------------------
(* Records with many shapes of bases, for the field walk. *)

BaseShapeIds == {"E1", "N4", "Dyn"}
BaseOffsets == {0, 8, 16}
VBaseShapeIds == {"E1", "Dyn"}
VBaseOffsets == {0, 32, 40}

IsEmptyShape(id) == id \in {"E1", "E0", "EB", "C0"}

SetMin(S) == CHOOSE x \in S : \A y \in S : x <= y

BaseParams ==
  UNION {[sh : [1..nb -> BaseShapeIds], of : [1..nb -> BaseOffsets]] : nb \in 0..MaxBases}
VBaseParams ==
  UNION {[sh : [1..nvb -> VBaseShapeIds], of : [1..nvb -> VBaseOffsets]] : nvb \in 0..MaxVBases}

DynamicBases(bp) == {i \in 1..Len(bp.sh) : bp.sh[i] = "Dyn"}
PrimaryVBases(vp) == {j \in 1..Len(vp.sh) : vp.sh[j] = "Dyn" /\ vp.of[j] = 0}

\* The primary base the ABI selects: the first dynamic non-virtual base, else a
\* nearly empty virtual base placed at offset 0, else none.
PrimaryBaseOf(bp, vp) ==
  IF DynamicBases(bp) # {} THEN BaseNameTable[SetMin(DynamicBases(bp))]
  ELSE IF PrimaryVBases(vp) # {} THEN VBaseNameTable[SetMin(PrimaryVBases(vp))]
  ELSE NoPrimaryBase

IsDynamicOf(bp, vp, ownVirtual) == ownVirtual \/ Len(vp.sh) > 0 \/ DynamicBases(bp) # {}

\* Layouts the ABI can produce: the primary base is at offset 0, nothing else that
\* has data shares offset 0 with a vtable pointer, bases with data do not overlap
\* and follow declaration order after the primary base; empty bases go anywhere.
RealisticBases(bp, vp, ownVirtual) ==
  LET nb == Len(bp.sh)
      nvb == Len(vp.sh)
      primary == PrimaryBaseOf(bp, vp)
      dynamic == IsDynamicOf(bp, vp, ownVirtual)
      data == {i \in 1..nb : ~IsEmptyShape(bp.sh[i])}
  IN /\ \A i \in data :
          IF BaseNameTable[i] = primary THEN bp.of[i] = 0
          ELSE dynamic => bp.of[i] # 0
     /\ \A i, j \in data :
          i < j /\ BaseNameTable[i] # primary /\ BaseNameTable[j] # primary
            => bp.of[i] < bp.of[j]
     /\ \A j \in 1..nvb :
          vp.of[j] = 0 => vp.sh[j] = "Dyn" /\ VBaseNameTable[j] = primary
     /\ \A i, j \in 1..nvb : i # j /\ vp.sh[i] = "Dyn" /\ vp.sh[j] = "Dyn" => vp.of[i] # vp.of[j]

\* class A : [virtual V,] P, Q ... { int x; }; the first virtual base is a direct base.
BasesRecordDef(bp, vp, ownVirtual) ==
  LET nb == Len(bp.sh)
      nvb == Len(vp.sh)
      vrefs == [j \in 1..nvb |-> RefShape(vp.sh[j], VBaseNameTable[j])]
      refs == [i \in 1..nb |-> RefShape(bp.sh[i], BaseNameTable[i])]
      specs == (IF nvb > 0 THEN <<BaseSpecifier(vrefs[1], TRUE)>> ELSE <<>>)
                 \o [i \in 1..nb |-> BaseSpecifier(refs[i], FALSE)]
      baseOffset == [n \in {BaseNameTable[i] : i \in 1..nb} |->
                       bp.of[CHOOSE i \in 1..nb : BaseNameTable[i] = n]]
      vbaseOffset == [n \in {VBaseNameTable[j] : j \in 1..nvb} |->
                        vp.of[CHOOSE j \in 1..nvb : VBaseNameTable[j] = n]]
  IN RecordDef("A", TRUE, "class", IsDynamicOf(bp, vp, ownVirtual), specs, vrefs,
               <<FieldDecl("x", IntType)>>,
               Layout(48, 28, 8, PrimaryBaseOf(bp, vp), baseOffset, vbaseOffset, <<192>>),
               NoVTableLayout)

\* struct V { virtual void f(); };  struct B : virtual V {};
\* struct A : V, B { int x; };
\* V is a direct non-virtual base of A, its primary base, and through B also a
\* virtual base of A: A has two V subobjects, at offsets 0 and 24.
SharedBaseRecordDef ==
  LET V == RefShape("Dyn", "V")
      B == ClassRef("B", TRUE, 8, TRUE, TRUE, TRUE, FALSE)
  IN RecordDef("A", TRUE, "struct", TRUE,
               <<BaseSpecifier(V, FALSE), BaseSpecifier(B, FALSE)>>, <<V>>,
               <<FieldDecl("x", IntType)>>,
               Layout(32, 32, 8, "V", "V" :> 0 @@ "B" :> 8, "V" :> 24, <<128>>),
               NoVTableLayout)

BasesRich ==
  {BasesRecordDef(p[1], p[2], p[3]) :
     p \in {q \in BaseParams \X VBaseParams \X BOOLEAN : RealisticBases(q[1], q[2], q[3])}}
  \cup {SharedBaseRecordDef}

-----------------------------------------------------------------------------
(* Records with many shapes of fields, for the field walk. *)

FieldKindsCXX == {"int", "bf3", "ubf8", "recE1", "recE0", "recN4"}
FieldKindsC == {"int", "bf3", "ubf8", "recC0", "recC4"}

FieldOfKind(kind, name) ==
  CASE kind = "int" -> FieldDecl(name, IntType)                      \* int a;
    [] kind = "bf3" -> BitFieldDecl(name, IntType, 3)                \* int a : 3;
    [] kind = "ubf8" -> BitFieldDecl("", IntType, 8)                 \* int : 8;
    [] kind = "recE1" -> FieldDecl(name, RecordType(RefShape("E1", "E"), FALSE, FALSE))
    [] kind = "recE0" -> FieldDecl(name, RecordType(RefShape("E0", "Z"), FALSE, FALSE))
    [] kind = "recN4" -> FieldDecl(name, RecordType(RefShape("N4", "N"), FALSE, FALSE))
    [] kind = "recC0" -> FieldDecl(name, RecordType(RefShape("C0", "Z"), FALSE, FALSE))
    [] kind = "recC4" -> FieldDecl(name, RecordType(RefShape("C4", "N"), FALSE, FALSE))

FieldSizeInBits(kind) ==
  CASE kind \in {"int", "recN4", "recC4"} -> 32
    [] kind = "bf3" -> 3
    [] kind \in {"ubf8", "recE1"} -> 8
    [] kind \in {"recE0", "recC0"} -> 0

\* Where the layout puts a field that follows bit `at`: a bit-field at the next
\* bit, any other field at the next byte boundary (a packed record).
FieldStart(kind, at) == IF kind \in {"bf3", "ubf8"} THEN at ELSE ((at + 7) \div 8) * 8

\* Bit offsets of consecutive fields laid out from bit `at` on.
RECURSIVE FieldOffsetsFrom(_, _)
FieldOffsetsFrom(kinds, at) ==
  IF kinds = <<>> THEN <<>>
  ELSE LET start == FieldStart(Head(kinds), at)
       IN <<start>> \o FieldOffsetsFrom(Tail(kinds), start + FieldSizeInBits(Head(kinds)))

\* The bit after the last of consecutive fields laid out from bit `at` on.
RECURSIVE FieldsEnd(_, _)
FieldsEnd(kinds, at) ==
  IF kinds = <<>> THEN at
  ELSE FieldsEnd(Tail(kinds), FieldStart(Head(kinds), at) + FieldSizeInBits(Head(kinds)))

FieldVariants == {"cxx-struct", "cxx-derived", "cxx-union", "c-struct", "c-union"}

FieldsRecordDef(variant, kinds) ==
  LET isCXX == variant \in {"cxx-struct", "cxx-derived", "cxx-union"}
      isUnion == variant \in {"cxx-union", "c-union"}
      start == IF variant = "cxx-derived" THEN 32 ELSE 0
      fields == [i \in 1..Len(kinds) |-> FieldOfKind(kinds[i], FieldNameTable[i])]
      offsets == IF isUnion THEN [i \in 1..Len(kinds) |-> 0] ELSE FieldOffsetsFrom(kinds, start)
      bytes == IF isUnion THEN (IF \E i \in 1..Len(kinds) : FieldSizeInBits(kinds[i]) = 32
                                  THEN 4 ELSE IF kinds = <<>> THEN 0 ELSE 1)
               ELSE (FieldsEnd(kinds, start) + 7) \div 8
      dataSize == IF isCXX /\ bytes = 0 THEN 1 ELSE bytes
      bases == IF variant = "cxx-derived"
                 THEN <<BaseSpecifier(RefShape("N4", "P"), FALSE)>> ELSE <<>>
      baseOffset == IF variant = "cxx-derived" THEN [n \in {"P"} |-> 0] ELSE NoOffsets
  IN RecordDef("A", isCXX, IF isUnion THEN "union" ELSE "struct", FALSE, bases, <<>>, fields,
               Layout(dataSize, dataSize, 4, NoPrimaryBase, baseOffset, NoOffsets, offsets),
               NoVTableLayout)

FieldsRich ==
  UNION {{FieldsRecordDef(variant, kinds) :
            kinds \in UNION {[1..n -> (IF variant \in {"c-struct", "c-union"}
                                         THEN FieldKindsC ELSE FieldKindsCXX)]
                             : n \in 0..MaxFields}}
         : variant \in FieldVariants}

-----------------------------------------------------------------------------
(* Records with a member of every type up to a nesting depth, for the       *)
(* flattening of types.                                                      *)

NRef == RefShape("N4", "N")

\* The record A that declares the member: `struct A { A *a; ... };` refers to
\* itself through a pointer.
SelfRef == ClassRef("A", TRUE, 24, FALSE, FALSE, FALSE, TRUE)

\* int, struct N, the alias `typedef const int CInt;` and the array alias
\* `typedef int Arr[2];`, with and without qualifiers.
LeafTypes ==
  {Builtin("int", c, v) : c, v \in BOOLEAN}
    \cup {RecordType(NRef, c, v) : c, v \in BOOLEAN}
    \cup {TypedefOf("CInt", Builtin("int", TRUE, FALSE), FALSE, v) : v \in BOOLEAN}
    \cup {TypedefOf("Arr", ArrayOf(IntType, 2), c, FALSE) : c \in BOOLEAN}
    \cup {RecordType(SelfRef, FALSE, FALSE)}

CanonicalKind(t) == getCanonicalType(t).k

\* The enclosing record itself, which is incomplete inside its own definition:
\* no member, array element or atomic value has that type.
IsSelf(t) == CanonicalKind(t) = "record" /\ getCanonicalType(t).decl.name = SelfRef.name

\* The types one constructor of the language builds on t.
TypesOver(t) ==
  LET kind == CanonicalKind(t)
      object == kind \notin {"reference", "function"} /\ ~IsSelf(t)
  IN (IF kind # "reference"
        THEN {PointerTo(t, c, v) : c, v \in BOOLEAN}
               \cup {ReferenceTo(t, rvalue) : rvalue \in BOOLEAN}
        ELSE {})
       \cup (IF object THEN {ArrayOf(t, 2), MemberPointerTo(RecordType(NRef, FALSE, FALSE),
                                                            t, FALSE, FALSE)}
             ELSE {})
       \cup (IF object /\ kind # "array" THEN {AtomicOf(t, FALSE, FALSE)} ELSE {})
       \cup (IF kind \notin {"function", "array"} THEN {FunctionType(<<t>>, IntType)} ELSE {})

RECURSIVE TypesOfDepth(_)
TypesOfDepth(d) ==
  IF d = 0 THEN LeafTypes
  ELSE LET inner == TypesOfDepth(d - 1)
       IN inner \cup UNION {TypesOver(t) : t \in inner}

\* What a non-static data member can be declared as.
MemberTypes ==
  {t \in TypesOfDepth(MaxTypeDepth) : CanonicalKind(t) # "function" /\ ~IsSelf(t)}

\* struct A { T a; int b; };
TypesRecordDef(t) ==
  RecordDef("A", TRUE, "struct", FALSE, <<>>, <<>>, <<FieldDecl("a", t), FieldDecl("b", IntType)>>,
            Layout(24, 24, 8, NoPrimaryBase, NoOffsets, NoOffsets, <<0, 128>>), NoVTableLayout)

TypesRich == {TypesRecordDef(t) : t \in MemberTypes}

LayoutDecls == {Decl("A", D) : D \in BasesRich \cup FieldsRich \cup TypesRich}

-----------------------------------------------------------------------------
(* Dynamic classes with many shapes of vtable layout, for the vtable        *)
(* projection.                                                               *)

ComponentChoices ==
  {OffsetComponent("CK_VCallOffset", -16), OffsetComponent("CK_VBaseOffset", 16),
   OffsetComponent("CK_OffsetToTop", 0), OffsetComponent("CK_OffsetToTop", -8),
   RTTIComponent("A"),
   FunctionComponent("CK_FunctionPointer", MethodF),
   FunctionComponent("CK_FunctionPointer", MethodAssign),
   FunctionComponent("CK_FunctionPointer", MethodConv),
   FunctionComponent("CK_UnusedFunctionPointer", MethodG),
   FunctionComponent("CK_CompleteDtorPointer", MethodDtor),
   FunctionComponent("CK_DeletingDtorPointer", MethodDtor)}

ThunkInfos ==
  {ThunkInfo(0, 0, 0, 0),       \* an empty entry
   ThunkInfo(0, 0, -8, 0),      \* this adjustment only
   ThunkInfo(8, 0, 0, 0),       \* return adjustment only
   ThunkInfo(0, 24, -8, -24)}   \* both, with virtual parts

\* The keys of K in ascending order.
SortedSeq(K) ==
  CHOOSE s \in [1..Cardinality(K) -> K] : \A i, j \in 1..Cardinality(K) : i < j => s[i] < s[j]

\* Thunk tables: sorted by index, one entry per index; an index may lie beyond
\* the components.
ThunkTables ==
  UNION {{[i \in 1..Cardinality(K) |-> ThunkEntry(SortedSeq(K)[i], info[SortedSeq(K)[i]])] :
            info \in [K -> ThunkInfos]}
         : K \in {K \in SUBSET (0..MaxComponents) : Cardinality(K) <= MaxThunks}}

FixedThunkTables == {<<>>, <<ThunkEntry(1, ThunkInfo(0, 0, -8, 0))>>}

\* Function components only, of every length up to the bound.
FunctionOnlyComponents(n) ==
  [i \in 1..n |-> IF i % 2 = 1 THEN FunctionComponent("CK_FunctionPointer", MethodF)
                  ELSE FunctionComponent("CK_DeletingDtorPointer", MethodDtor)]

VTableLayouts ==
  {[components |-> c, thunks |-> t] :
     c \in UNION {[1..n -> ComponentChoices] : n \in 0..MaxComponents}, t \in FixedThunkTables}
  \cup {[components |-> FunctionOnlyComponents(MaxComponents), thunks |-> t] : t \in ThunkTables}

\* class A { virtual ...; };
VTableRecordDef(vtableLayout) ==
  RecordDef("A", TRUE, "class", TRUE, <<>>, <<>>, <<>>,
            Layout(8, 8, 8, NoPrimaryBase, NoOffsets, NoOffsets, <<>>), vtableLayout)

VTableDecls == {Decl("A", VTableRecordDef(l)) : l \in VTableLayouts}

-----------------------------------------------------------------------------
(* The run of ParseRecords. *)

AllDecls == [kind |-> "all"]
OneDecl(decl) == [kind |-> "one", decl |-> decl]

RecordDeclsOf(s) == IF s.kind = "all" THEN StreamRecordDecls ELSE {s.decl}
EnumDeclsOf(s) == IF s.kind = "all" THEN StreamEnumDecls ELSE {}

\* ParseResult::AddErrorContext
AddErrorContext(err, error_) == error_ \o (IF err = "" THEN "" ELSE ": ") \o err

NoCall == [op |-> "none"]

\* ParseRecords after `ParseContext::Make(result, config)`.
Constructed ==
  /\ inline_empty_structs \in BOOLEAN
  /\ error = ""
  /\ enums = <<>>
  /\ records = <<>>
  /\ m_processed = {}
  /\ phase = "ready"
  /\ call = NoCall
  /\ first = [n \in Names |-> NullDecl]

Init == Constructed /\ stream = AllDecls

\* A HandleTranslationUnit that records the error and traverses all the same.
HandleTranslationUnit_Traverses(itanium) ==
  /\ phase = "ready"
  /\ error' = IF ~itanium THEN "only the Itanium C++ ABI is supported" ELSE error
  /\ phase' = "traversing"
  /\ call' = [op |-> "HandleTranslationUnit", itanium |-> itanium]
  /\ UNCHANGED <<inline_empty_structs, enums, records, m_processed, stream, first>>

\* ParseRecordConsumer::HandleTranslationUnit up to the start of TraverseAST.
HandleTranslationUnit(itanium) ==
  /\ phase = "ready"
  /\ IF ~itanium
       THEN error' = "only the Itanium C++ ABI is supported" /\ phase' = "ready"
       ELSE error' = error /\ phase' = "traversing"
  /\ call' = [op |-> "HandleTranslationUnit", itanium |-> itanium]
  /\ UNCHANGED <<inline_empty_structs, enums, records, m_processed, stream, first>>

HandleEnumDecl(decl) ==
  LET D == getDefinition(decl)
  IN /\ enums' = EnumsAfterHandleEnumDecl(decl, enums, m_processed)
     /\ m_processed' = CanProcessSet(D, m_processed)
     /\ first' = IF CanProcess(D, m_processed) THEN [first EXCEPT ![D.name] = D] ELSE first
     /\ call' = [op |-> "HandleEnumDecl", decl |-> decl]
     /\ UNCHANGED <<inline_empty_structs, error, records, phase, stream>>

HandleRecordDecl(decl) ==
  LET D == getDefinition(decl)
  IN /\ records' = RecordsAfterHandleRecordDecl(decl, records, m_processed,
                                                inline_empty_structs)
     /\ m_processed' = CanProcessSet(D, m_processed)
     /\ first' = IF CanProcess(D, m_processed) THEN [first EXCEPT ![D.name] = D] ELSE first
     /\ call' = [op |-> "HandleRecordDecl", decl |-> decl]
     /\ UNCHANGED <<inline_empty_structs, error, enums, phase, stream>>

\* TraverseAST reaches an enum declaration.
VisitEnumDecl(decl) == phase = "traversing" /\ HandleEnumDecl(decl)

\* TraverseAST reaches a record declaration.
VisitRecordDecl(decl) == phase = "traversing" /\ HandleRecordDecl(decl)

\* TraverseAST returns.
EndTraverse ==
  /\ phase = "traversing"
  /\ phase' = "ready"
  /\ call' = [op |-> "EndTraverse"]
  /\ UNCHANGED <<inline_empty_structs, error, enums, records, m_processed, stream, first>>

\* A ParseRecords that answers a failed run with a fresh result holding the error.
ParseRecordsReturn_Fail(rc) ==
  /\ phase = "ready"
  /\ phase' = "done"
  /\ error' = IF rc # 0 THEN AddErrorContext(error, "failed to run tool") ELSE error
  /\ enums' = IF rc # 0 THEN <<>> ELSE enums
  /\ records' = IF rc # 0 THEN <<>> ELSE records
  /\ call' = [op |-> "ParseRecordsReturn", rc |-> rc]
  /\ UNCHANGED <<inline_empty_structs, m_processed, stream, first>>

\* tool.run returns rc and ParseRecords returns the result.
ParseRecordsReturn(rc) ==
  /\ phase = "ready"
  /\ phase' = "done"
  /\ error' = IF rc # 0 THEN AddErrorContext(error, "failed to run tool") ELSE error
  /\ call' = [op |-> "ParseRecordsReturn", rc |-> rc]
  /\ UNCHANGED <<inline_empty_structs, enums, records, m_processed, stream, first>>

Next ==
  \/ \E itanium \in BOOLEAN : HandleTranslationUnit(itanium)
  \/ \E decl \in EnumDeclsOf(stream) : VisitEnumDecl(decl)
  \/ \E decl \in RecordDeclsOf(stream) : VisitRecordDecl(decl)
  \/ EndTraverse
  \/ \E rc \in {0, 1} : ParseRecordsReturn(rc)

Spec == Init /\ [][Next]_vars

\* One record declaration, visited in one translation unit.
InitLayout == Constructed /\ stream \in {OneDecl(decl) : decl \in LayoutDecls}
InitVTable == Constructed /\ stream \in {OneDecl(decl) : decl \in VTableDecls}

NextOne ==
  \/ HandleTranslationUnit(TRUE)
  \/ \E decl \in RecordDeclsOf(stream) : VisitRecordDecl(decl)

SpecLayout == InitLayout /\ [][NextOne]_vars
SpecVTable == InitVTable /\ [][NextOne]_vars

-----------------------------------------------------------------------------
(* Vocabulary of the properties. *)

IsHandlerCall(c) == c.op \in {"HandleEnumDecl", "HandleRecordDecl"}

\* The definition a handler call resolves its argument to.
CallDef(c) == getDefinition(c.decl)

\* What CanProcess turns away whatever was processed before.
IsRejected(D) == D = NullDecl \/ D.invalid \/ ~D.complete \/ D.templated

RecordNames == {records[i].name : i \in 1..Len(records)}
EnumNames == {enums[i].name : i \in 1..Len(enums)}

\* The empty-record policy as documented: data size 0, or no vtable, no bases,
\* no virtual bases and no direct fields.
IsEmptyUnderPolicy(ref) ==
  \/ ref.dataSize = 0
  \/ ~ref.dynamic /\ ~ref.hasBases /\ ~ref.hasVBases /\ ~ref.hasDirectFields

-----------------------------------------------------------------------------
\* C1: each qualified name appears at most once in the result (no two Records
\* and no two Enums share a name, and no name is both), and the entry of a name
\* is the one built from the first accepted visit of that name.
C1_OneEntryPerName ==
  /\ \A i, j \in 1..Len(records) : i # j => records[i].name # records[j].name
  /\ \A i, j \in 1..Len(enums) : i # j => enums[i].name # enums[j].name
  /\ RecordNames \cap EnumNames = {}
  /\ \A i \in 1..Len(records) :
       /\ first[records[i].name] # NullDecl
       /\ first[records[i].name].k = "record"
       /\ records[i] = BuildRecord(first[records[i].name], inline_empty_structs)
  /\ \A i \in 1..Len(enums) :
       /\ first[enums[i].name] # NullDecl
       /\ first[enums[i].name].k = "enum"
       /\ enums[i] = BuildEnum(first[enums[i].name])

\* A name with an entry has just been declared again, in another shape.
C1_Witness ==
  /\ IsHandlerCall(call)
  /\ ~IsRejected(CallDef(call))
  /\ CallDef(call).name \in RecordNames \cup EnumNames
  /\ first[CallDef(call).name] # CallDef(call)

\* C2: a handler call on a declaration whose qualified name is already in the
\* processed-name set changes neither the enum list, the record list, the error
\* string nor the processed-name set.
C2_RevisitIsNoOp ==
  [][(IsHandlerCall(call') /\ CallDef(call') # NullDecl
        /\ getTypeDeclTypeName(CallDef(call')) \in m_processed)
       => UNCHANGED <<enums, records, error, m_processed>>]_vars

\* A complete, valid definition was handed over whose name had been processed
\* for another declaration.
C2_Witness ==
  /\ IsHandlerCall(call)
  /\ ~IsRejected(CallDef(call))
  /\ CallDef(call).name \in m_processed
  /\ first[CallDef(call).name] # CallDef(call)
  /\ Len(records) + Len(enums) > 0

C4_EmptyRecordEmitted ==
  \A n \in Names :
    (inline_empty_structs /\ first[n] # NullDecl /\ first[n].k = "record"
       /\ IsEmptyUnderPolicy(RefOf(first[n])))
      => n \in RecordNames

\* C4 amended: a record that is empty under the policy and was accepted by
\* HandleRecordDecl has a Record of its own exactly when inlining is disabled;
\* with inlining enabled its name is processed and no Record is emitted for it.
C4_EmptyRecordEmittedIffNotInlining ==
  \A n \in Names :
    (first[n] # NullDecl /\ first[n].k = "record" /\ IsEmptyUnderPolicy(RefOf(first[n])))
      => /\ n \in m_processed
         /\ (n \in RecordNames) <=> ~inline_empty_structs

\* With inlining enabled an empty C++ record was accepted and left out, while
\* another record was emitted.
C4_Witness ==
  /\ inline_empty_structs
  /\ \E n \in Names :
       /\ first[n] # NullDecl /\ first[n].k = "record"
       /\ first[n].isCXX
       /\ IsEmptyUnderPolicy(RefOf(first[n]))
       /\ n \in m_processed
       /\ n \notin RecordNames
  /\ records # <<>>

-----------------------------------------------------------------------------
(* Vocabulary of the properties of one emitted Record r: the definition it   *)
(* was built from is first[r.name].                                          *)

DefOf(r) == first[r.name]

IsVTablePointer(f) == f.data.k = "VTablePointer"
IsBase(f) == f.data.k = "Base"
IsMember(f) == f.data.k = "MemberVariable"

NonVirtualBaseRefs(D) == {D.bases[k].decl : k \in {k \in 1..Len(D.bases) : ~D.bases[k].virtual}}
VirtualBaseRefs(D) == Range(D.vbases)
NamedFieldIndexes(D) == {k \in 1..Len(D.fields) : ~D.fields[k].unnamedBitfield}

\* Position of a base, a virtual base, a field in its declaration list.
BaseDeclIndex(D, name) == CHOOSE k \in 1..Len(D.bases) : D.bases[k].decl.name = name
VBaseDeclIndex(D, name) == CHOOSE k \in 1..Len(D.vbases) : D.vbases[k].name = name
FieldDeclIndex(D, name) == CHOOSE k \in NamedFieldIndexes(D) : D.fields[k].name = name

\* C5: with inlining enabled no emitted Record has a Base entry of a class that
\* is empty under the policy, nor, unless it is a union, a MemberVariable whose
\* type is an empty record; with inlining disabled every non-virtual base,
\* every virtual base and every named field has its entry.
C5_EmptyBasesAndMembersDropped ==
  \A i \in 1..Len(records) :
    LET r == records[i]
        D == DefOf(r)
    IN /\ inline_empty_structs =>
            \A j \in 1..Len(r.fields) :
              LET f == r.fields[j]
              IN /\ IsBase(f) =>
                      \A b \in NonVirtualBaseRefs(D) \cup VirtualBaseRefs(D) :
                        b.name = f.data.type_name => ~IsEmptyUnderPolicy(b)
                 /\ IsMember(f) =>
                      \A k \in NamedFieldIndexes(D) :
                        (D.fields[k].name = f.data.name /\ IsRecordType(D.fields[k].type)
                           /\ IsEmptyUnderPolicy(getAsRecordDecl(D.fields[k].type)))
                          => r.kind = "Union"
       /\ ~inline_empty_structs =>
            /\ \A b \in NonVirtualBaseRefs(D) :
                 \E j \in 1..Len(r.fields) :
                   IsBase(r.fields[j]) /\ ~r.fields[j].data.is_virtual
                     /\ r.fields[j].data.type_name = b.name
            /\ \A b \in VirtualBaseRefs(D) :
                 \E j \in 1..Len(r.fields) :
                   IsBase(r.fields[j]) /\ r.fields[j].data.is_virtual
                     /\ r.fields[j].data.type_name = b.name
            /\ \A k \in NamedFieldIndexes(D) :
                 \E j \in 1..Len(r.fields) :
                   IsMember(r.fields[j]) /\ r.fields[j].data.name = D.fields[k].name

\* With inlining enabled a Record was emitted for a class with an empty base and
\* a base with data: the first has no entry, the second has one.
C5_Witness ==
  /\ inline_empty_structs
  /\ \E i \in 1..Len(records) :
       LET r == records[i]
           D == DefOf(r)
       IN /\ \E b \in NonVirtualBaseRefs(D) :
               /\ IsEmptyUnderPolicy(b)
               /\ \A j \in 1..Len(r.fields) :
                    IsBase(r.fields[j]) => r.fields[j].data.type_name # b.name
          /\ \E b \in NonVirtualBaseRefs(D) :
               /\ ~IsEmptyUnderPolicy(b)
               /\ \E j \in 1..Len(r.fields) :
                    IsBase(r.fields[j]) /\ r.fields[j].data.type_name = b.name

\* C6 as claimed: ShouldInlineEmptyRecord(D) is true exactly when inlining is
\* enabled and D is empty under the policy, for every record HandleRecordDecl is
\* given, C++ class or plain C record.
C6_InlinedIffEmpty ==
  (call.op = "HandleRecordDecl" /\ CallDef(call) # NullDecl) =>
     (ShouldInlineEmptyRecord(inline_empty_structs, RefOf(CallDef(call)))
        <=> (inline_empty_structs /\ IsEmptyUnderPolicy(RefOf(CallDef(call)))))

\* The group of a field in the order of C7.
FieldGroup(f) ==
  CASE IsVTablePointer(f) -> 0
    [] IsBase(f) /\ ~f.data.is_virtual -> 1
    [] IsMember(f) -> 2
    [] IsBase(f) /\ f.data.is_virtual -> 3

C8_MemberOffsets ==
  \A r \in Range(records) :
    LET D == DefOf(r)
    IN \A j \in 1..Len(r.fields) :
         IsMember(r.fields[j]) =>
           \E k \in NamedFieldIndexes(D) :
             /\ D.fields[k].name = r.fields[j].data.name
             /\ r.fields[j].offset = 0 + (D.layout.fieldOffset[k] \div 8)

\* The output tag of each oracle component kind.
KindTag ==
  "CK_VCallOffset" :> "VCallOffset" @@ "CK_VBaseOffset" :> "VBaseOffset" @@
  "CK_OffsetToTop" :> "OffsetToTop" @@ "CK_RTTI" :> "RTTI" @@
  "CK_FunctionPointer" :> "FunctionPointer" @@
  "CK_UnusedFunctionPointer" :> "FunctionPointer" @@
  "CK_CompleteDtorPointer" :> "CompleteDtorPointer" @@
  "CK_DeletingDtorPointer" :> "DeletingDtorPointer"

\* Output component c carries what oracle component o carries.
CarriesComponent(c, o) ==
  /\ c.tag = KindTag[o.kind]
  /\ o.kind \in {"CK_VCallOffset", "CK_VBaseOffset", "CK_OffsetToTop"} => c.offset = o.offset
  /\ o.kind = "CK_RTTI" => c.class_name = o.rtti
  /\ IsFunctionKind(o.kind) =>
       /\ c.is_const = o.func.isConst
       /\ o.func.name # "" => c.function_name = o.func.name

\* C9: the vtable of a dynamic class has as many components as the oracle's
\* sequence, and output component i carries oracle component i, for every i.
C9_VTableFollowsOracle ==
  \A r \in Range(records) :
    LET D == DefOf(r)
    IN (D.isCXX /\ D.dynamic) =>
         /\ r.vtable # NullVTable
         /\ Len(r.vtable.components) = Len(D.vtableLayout.components)
         /\ \A i \in 1..Len(D.vtableLayout.components) :
              CarriesComponent(r.vtable.components[i], D.vtableLayout.components[i])

\* A vtable of the longest kind with two consecutive OffsetToTop components and
\* an unused function pointer.
C9_Witness ==
  \E r \in Range(records) :
    /\ r.vtable # NullVTable
    /\ Len(r.vtable.components) = MaxComponents
    /\ \E i \in 1..(MaxComponents - 1) :
         /\ r.vtable.components[i].tag = "OffsetToTop"
         /\ r.vtable.components[i + 1].tag = "OffsetToTop"
    /\ \E i \in 1..MaxComponents :
         DefOf(r).vtableLayout.components[i].kind = "CK_UnusedFunctionPointer"

NonEmptyThunk(t) ==
  t.Return.NonVirtual # 0 \/ t.Return.VBaseOffsetOffset # 0
    \/ t.This.NonVirtual # 0 \/ t.This.VCallOffsetOffset # 0

\* C10: the function-pointer-like component at index i is a thunk exactly when
\* the thunk table has a non-empty entry whose key is i.
C10_ThunkIffKeyed ==
  \A r \in Range(records) :
    LET layout == DefOf(r).vtableLayout
    IN r.vtable # NullVTable =>
         \A i \in 1..Len(layout.components) :
           IsFunctionKind(layout.components[i].kind) =>
             (r.vtable.components[i].is_thunk
                <=> \E k \in 1..Len(layout.thunks) :
                      /\ layout.thunks[k].first = i - 1
                      /\ NonEmptyThunk(layout.thunks[k].second))

\* One vtable with a thunk, a component keyed with an empty entry, and a
\* component with no entry while a later index has one.
C10_Witness ==
  \E r \in Range(records) :
    LET layout == DefOf(r).vtableLayout
        keys == {layout.thunks[k].first : k \in 1..Len(layout.thunks)}
    IN /\ r.vtable # NullVTable
       /\ \E i \in 1..Len(r.vtable.components) :
            IsFunctionKind(layout.components[i].kind) /\ r.vtable.components[i].is_thunk
       /\ \E i \in 1..Len(r.vtable.components) :
            /\ IsFunctionKind(layout.components[i].kind)
            /\ ~r.vtable.components[i].is_thunk
            /\ (i - 1) \notin keys
            /\ \E key \in keys : key > i - 1
       /\ \E i \in 1..Len(r.vtable.components) :
            /\ IsFunctionKind(layout.components[i].kind)
            /\ ~r.vtable.components[i].is_thunk
            /\ (i - 1) \in keys

-----------------------------------------------------------------------------
\* The four adjustment fields of an output component.
Adjustments(c) ==
  <<c.return_adjustment, c.return_adjustment_vbase_offset_offset,
    c.this_adjustment, c.this_adjustment_vcall_offset_offset>>

\* C11: a thunked component carries the return adjustment of its source thunk
\* (the entry of the thunk table keyed at its index) when that is non-empty and
\* zeros otherwise, and the this adjustment of its source thunk when that is
\* non-empty and zeros otherwise; a component that is not a thunk has all four
\* adjustment fields 0.
C11_ThunkAdjustments ==
  \A r \in Range(records) :
    LET layout == DefOf(r).vtableLayout
    IN r.vtable # NullVTable =>
         \A i \in 1..Len(layout.components) :
           IsFunctionKind(layout.components[i].kind) =>
             LET c == r.vtable.components[i]
             IN /\ c.is_thunk =>
                     \E k \in 1..Len(layout.thunks) :
                       LET t == layout.thunks[k].second
                           hasReturn == t.Return.NonVirtual # 0 \/ t.Return.VBaseOffsetOffset # 0
                           hasThis == t.This.NonVirtual # 0 \/ t.This.VCallOffsetOffset # 0
                       IN /\ layout.thunks[k].first = i - 1
                          /\ c.return_adjustment
                               = (IF hasReturn THEN t.Return.NonVirtual ELSE 0)
                          /\ c.return_adjustment_vbase_offset_offset
                               = (IF hasReturn THEN t.Return.VBaseOffsetOffset ELSE 0)
                          /\ c.this_adjustment = (IF hasThis THEN t.This.NonVirtual ELSE 0)
                          /\ c.this_adjustment_vcall_offset_offset
                               = (IF hasThis THEN t.This.VCallOffsetOffset ELSE 0)
                /\ ~c.is_thunk => Adjustments(c) = <<0, 0, 0, 0>>

\* One vtable with a this-only thunk, whose return adjustment fields are 0, and
\* a return-only thunk, whose this adjustment fields are 0.
C11_Witness ==
  \E r \in Range(records) :
    /\ r.vtable # NullVTable
    /\ \E i \in 1..Len(r.vtable.components) :
         LET c == r.vtable.components[i]
         IN /\ c.tag \in {"FunctionPointer", "CompleteDtorPointer", "DeletingDtorPointer"}
            /\ c.is_thunk
            /\ c.this_adjustment # 0
            /\ c.return_adjustment = 0 /\ c.return_adjustment_vbase_offset_offset = 0
    /\ \E i \in 1..Len(r.vtable.components) :
         LET c == r.vtable.components[i]
         IN /\ c.tag \in {"FunctionPointer", "CompleteDtorPointer", "DeletingDtorPointer"}
            /\ c.is_thunk
            /\ c.return_adjustment # 0
            /\ c.this_adjustment = 0 /\ c.this_adjustment_vcall_offset_offset = 0

-----------------------------------------------------------------------------
\* The declared type of the member that field f of record r was built from.
DeclaredType(r, f) == DefOf(r).fields[FieldDeclIndex(DefOf(r), f.data.name)].type

\* C12: Flatten of pointer-to-T is Pointer(Flatten(T)), and Flatten of
\* reference-to-T (lvalue or rvalue) is Flatten of pointer-to-T: checked on the
\* flattened type of every emitted member declared as a pointer or a reference.
C12_PointerAndReference ==
  \A r \in Range(records) :
    \A j \in 1..Len(r.fields) :
      IsMember(r.fields[j]) =>
        LET T == getCanonicalType(DeclaredType(r, r.fields[j]))
        IN /\ T.k = "pointer" =>
                r.fields[j].data.type = ComplexTypePointer(TranslateToComplexType(T.pointee))
           /\ T.k = "reference" =>
                /\ r.fields[j].data.type
                     = TranslateToComplexType(PointerTo(T.pointee, FALSE, FALSE))
                /\ r.fields[j].data.type.kind = "Pointer"

\* A member declared as an rvalue reference to a pointer was emitted.
C12_Witness ==
  \E r \in Range(records) :
    \E j \in 1..Len(r.fields) :
      /\ IsMember(r.fields[j])
      /\ LET T == getCanonicalType(DeclaredType(r, r.fields[j]))
         IN /\ T.k = "reference" /\ T.rvalue
            /\ CanonicalKind(T.pointee) = "pointer"
            /\ r.fields[j].data.type.kind = "Pointer"
            /\ r.fields[j].data.type.pointee_type.kind = "Pointer"

-----------------------------------------------------------------------------
\* The record a Base entry of r names.
BaseRefOf(r, f) ==
  CHOOSE b \in NonVirtualBaseRefs(DefOf(r)) \cup VirtualBaseRefs(DefOf(r)) :
    b.name = f.data.type_name

\* Field f of r is one the layout may overlap with a neighbour: a bit-field, or
\* a base or a member of an empty record type.
MayOverlap(r, f) ==
  \/ IsMember(f) /\ f.data.bitfield_width > 0
  \/ IsMember(f) /\ IsRecordType(DeclaredType(r, f))
       /\ IsEmptyUnderPolicy(getAsRecordDecl(DeclaredType(r, f)))
  \/ IsBase(f) /\ IsEmptyUnderPolicy(BaseRefOf(r, f))

\* Field f of r is a member declared after an unnamed bit-field.
FollowsUnnamedBitfield(r, f) ==
  /\ IsMember(f)
  /\ \E k \in 1..Len(DefOf(r).fields) :
       DefOf(r).fields[k].unnamedBitfield /\ k < FieldDeclIndex(DefOf(r), f.data.name)

-----------------------------------------------------------------------------
UnsupportedABI == "only the Itanium C++ ABI is supported"

\* C14 as claimed: once HandleTranslationUnit has met an unsupported ABI, the
\* error is recorded and the declarations of the translation unit are traversed.
C14_ExtractionContinues ==
  (call.op = "HandleTranslationUnit" /\ ~call.itanium) =>
     error # "" /\ phase = "traversing"

\* C14 amended: HandleTranslationUnit under an unsupported ABI records the
\* global error and returns without traversing: the lists and the
\* processed-name set are unchanged and no handler is called for a declaration
\* of that translation unit; handlers are called only during the traversal of
\* a translation unit under the supported ABI.
C14_UnsupportedABISkipsTraversal ==
  [][/\ (call'.op = "HandleTranslationUnit" /\ ~call'.itanium) =>
          /\ error' = UnsupportedABI
          /\ phase' = "ready"
          /\ UNCHANGED <<enums, records, m_processed>>
     /\ IsHandlerCall(call') =>
          /\ phase = "traversing" /\ phase' = "traversing"
          /\ ~(call.op = "HandleTranslationUnit" /\ ~call.itanium)]_vars

\* After a translation unit under an unsupported ABI was skipped with what an
\* earlier one had yielded kept, a later translation unit under the supported
\* ABI had a dynamic class emitted with its vtable.
C14_Witness ==
  /\ error = UnsupportedABI
  /\ call.op = "HandleRecordDecl"
  /\ enums # <<>>
  /\ \E i \in 1..Len(records) :
       /\ records[i].name = CallDef(call).name
       /\ i = Len(records)
       /\ first[records[i].name] = CallDef(call)
       /\ records[i].vtable # NullVTable

-----------------------------------------------------------------------------
\* C15: a step that records a global error (HandleTranslationUnit under an
\* unsupported ABI, ParseRecords after a failed tool run) leaves the enum list
\* and the record list as they are; an error string that is non-empty stays
\* non-empty; and AddErrorContext puts its context before the error string.
C15_ErrorsKeepResults ==
  [][/\ error' # error => UNCHANGED <<enums, records>>
     /\ call'.op \in {"HandleTranslationUnit", "ParseRecordsReturn"} =>
          UNCHANGED <<enums, records>>
     /\ error # "" => error' # ""
     /\ (call'.op = "ParseRecordsReturn" /\ call'.rc # 0) =>
          error' = "failed to run tool" \o (IF error = "" THEN "" ELSE ": " \o error)]_vars

\* The tool run failed after an unsupported ABI had been reported, with enums
\* and records accumulated.
C15_Witness ==
  /\ call.op = "ParseRecordsReturn"
  /\ call.rc # 0
  /\ error = "failed to run tool: only the Itanium C++ ABI is supported"
  /\ enums # <<>>
  /\ records # <<>>

-----------------------------------------------------------------------------
IsPrefix(s, t) == Len(s) <= Len(t) /\ SubSeq(t, 1, Len(s)) = s

\* C16: every step leaves each list a prefix of what it becomes, so no entry is
\* modified, moved or removed; a HandleEnumDecl call appends at most one Enum
\* and leaves the records, a HandleRecordDecl call appends at most one Record
\* and leaves the enums, an appended entry is the one of the call's
\* declaration, and no other step changes a list.
C16_AppendOnly ==
  [][/\ IsPrefix(enums, enums')
     /\ IsPrefix(records, records')
     /\ call'.op = "HandleEnumDecl" =>
          /\ records' = records
          /\ Len(enums') <= Len(enums) + 1
          /\ Len(enums') = Len(enums) + 1 =>
               enums'[Len(enums')] = BuildEnum(CallDef(call'))
     /\ call'.op = "HandleRecordDecl" =>
          /\ enums' = enums
          /\ Len(records') <= Len(records) + 1
          /\ Len(records') = Len(records) + 1 =>
               records'[Len(records')] = BuildRecord(CallDef(call'), inline_empty_structs)
     /\ ~IsHandlerCall(call') => UNCHANGED <<enums, records>>]_vars

\* A second Enum was appended behind the first, which kept its place.
C16_Witness ==
  /\ call.op = "HandleEnumDecl"
  /\ Len(enums) = 2
  /\ enums[2] = BuildEnum(CallDef(call))
  /\ enums[1].name # enums[2].name

-----------------------------------------------------------------------------
\* C17: the field list of an emitted Record has a VTablePointer field exactly
\* when the class is dynamic and its layout has no primary base; a
\* VTablePointer field is the first field, hence the only one, and its offset
\* is 0.
C17_VTablePointerIffNoPrimaryBase ==
  \A r \in Range(records) :
    LET D == DefOf(r)
    IN /\ (\E j \in 1..Len(r.fields) : IsVTablePointer(r.fields[j]))
            <=> (D.isCXX /\ D.dynamic /\ D.layout.primaryBase = NoPrimaryBase)
       /\ \A j \in 1..Len(r.fields) :
            IsVTablePointer(r.fields[j]) => j = 1 /\ r.fields[j].offset = 0

\* A dynamic class whose primary base carries the vtable pointer was emitted
\* with that base first and no VTablePointer field.
C17_Witness ==
  \E r \in Range(records) :
    LET D == DefOf(r)
    IN /\ D.dynamic
       /\ D.layout.primaryBase # NoPrimaryBase
       /\ r.fields # <<>>
       /\ IsBase(r.fields[1]) /\ r.fields[1].data.is_primary
       /\ \A j \in 1..Len(r.fields) : ~IsVTablePointer(r.fields[j])

-----------------------------------------------------------------------------
\* The payload of a function-pointer-like output component: its fields other
\* than the tag and the human-readable description.
Payload(c) ==
  [is_thunk |-> c.is_thunk, is_const |-> c.is_const,
   return_adjustment |-> c.return_adjustment,
   return_adjustment_vbase_offset_offset |-> c.return_adjustment_vbase_offset_offset,
   this_adjustment |-> c.this_adjustment,
   this_adjustment_vcall_offset_offset |-> c.this_adjustment_vcall_offset_offset,
   function_name |-> c.function_name, type |-> c.type]

\* C18: VCallOffset, VBaseOffset, OffsetToTop and RTTI components get the tag of
\* the same name with the oracle's offset or class name; ordinary and unused
\* function pointers get FunctionPointer, complete-object destructors
\* CompleteDtorPointer and deleting destructors DeletingDtorPointer, and an
\* entry of either destructor tag has the fields of a FunctionPointer entry, with
\* the payload an ordinary entry for the same function at the same index has.
C18_KindToTag ==
  \A r \in Range(records) :
    LET layout == DefOf(r).vtableLayout
    IN r.vtable # NullVTable =>
         \A i \in 1..Len(r.vtable.components) :
           LET o == layout.components[i]
               c == r.vtable.components[i]
               ordinary == FunctionPointerEntry(layout, i - 1,
                                                [o EXCEPT !.kind = "CK_FunctionPointer"])
           IN /\ o.kind = "CK_VCallOffset" => c = [tag |-> "VCallOffset", offset |-> o.offset]
              /\ o.kind = "CK_VBaseOffset" => c = [tag |-> "VBaseOffset", offset |-> o.offset]
              /\ o.kind = "CK_OffsetToTop" => c = [tag |-> "OffsetToTop", offset |-> o.offset]
              /\ o.kind = "CK_RTTI" => c = [tag |-> "RTTI", class_name |-> o.rtti]
              /\ o.kind \in {"CK_FunctionPointer", "CK_UnusedFunctionPointer"} =>
                   c.tag = "FunctionPointer"
              /\ o.kind = "CK_CompleteDtorPointer" => c.tag = "CompleteDtorPointer"
              /\ o.kind = "CK_DeletingDtorPointer" => c.tag = "DeletingDtorPointer"
              /\ IsFunctionKind(o.kind) =>
                   /\ DOMAIN c = DOMAIN ordinary
                   /\ Payload(c) = Payload(ordinary)

\* One vtable with a complete-object destructor, a deleting destructor and an
\* unused function pointer.
C18_Witness ==
  \E r \in Range(records) :
    LET layout == DefOf(r).vtableLayout
    IN /\ r.vtable # NullVTable
       /\ \E i \in 1..Len(r.vtable.components) :
            r.vtable.components[i].tag = "CompleteDtorPointer"
       /\ \E i \in 1..Len(r.vtable.components) :
            r.vtable.components[i].tag = "DeletingDtorPointer"
       /\ \E i \in 1..Len(r.vtable.components) :
            /\ layout.components[i].kind = "CK_UnusedFunctionPointer"
            /\ r.vtable.components[i].tag = "FunctionPointer"

-----------------------------------------------------------------------------
\* C19 as claimed: the flattened type of every emitted member drops the
\* qualifiers of a pointer level (a const or volatile pointer to T flattens as
\* a pointer to T), and a member whose type is a leaf (a builtin, a record) is a
\* TypeName whose is_const / is_volatile are the qualifiers of that type, a
\* const- or volatile-qualified record type included.
C19_QualifiersOnLeaves ==
  \A r \in Range(records) :
    \A j \in 1..Len(r.fields) :
      IsMember(r.fields[j]) =>
        LET T == getCanonicalType(DeclaredType(r, r.fields[j]))
            type == r.fields[j].data.type
        IN /\ T.k = "pointer" =>
                type = TranslateToComplexType(PointerTo(T.pointee, FALSE, FALSE))
           /\ T.k \in {"builtin", "record"} =>
                /\ type.kind = "TypeName"
                /\ type.is_const = T.const
                /\ type.is_volatile = T.volatile

-----------------------------------------------------------------------------
\* C20: under the supported ABI an emitted Record has a non-null vtable exactly
\* when it is a C++ class that is dynamic; the vtable of a class that is not
\* dynamic and of a C record is null; and a non-null vtable is the translation
\* of the oracle's layout for the class of that Record, component by component.
C20_VTableIffDynamic ==
  \A r \in Range(records) :
    LET D == DefOf(r)
    IN /\ D.itanium =>
            (r.vtable # NullVTable <=> (D.isCXX /\ D.dynamic))
       /\ r.vtable # NullVTable =>
            /\ Len(r.vtable.components) = Len(D.vtableLayout.components)
            /\ \A i \in 1..Len(D.vtableLayout.components) :
                 <<r.vtable.components[i]>>
                   = TranslateComponent(D.vtableLayout, i - 1, D.vtableLayout.components[i])

\* The result holds a dynamic class with its vtable and a record that is not
\* dynamic, with a null vtable.
C20_Witness ==
  /\ \E r \in Range(records) :
       /\ DefOf(r).dynamic
       /\ r.vtable # NullVTable
       /\ r.vtable.components # <<>>
  /\ \E r \in Range(records) :
       /\ ~DefOf(r).dynamic
       /\ r.vtable = NullVTable

-----------------------------------------------------------------------------
Max2(a, b) == IF a >= b THEN a ELSE b

\* The nesting depth of array, member-pointer, pointer, reference, function and
\* atomic constructors in a type; a builtin or a named record is a leaf.
RECURSIVE NestingDepth(_)
NestingDepth(qualtype) ==
  LET T == getCanonicalType(qualtype)
  IN CASE T.k = "array" -> 1 + NestingDepth(T.elem)
       [] T.k = "memptr" -> 1 + Max2(NestingDepth(T.class), NestingDepth(T.pointee))
       [] T.k \in {"pointer", "reference"} -> 1 + NestingDepth(T.pointee)
       [] T.k = "function" ->
            1 + Max2(NestingDepth(T.ret),
                     IF T.params = <<>> THEN 0 ELSE NestingDepth(T.params[1]))
       [] T.k = "atomic" -> 1 + NestingDepth(T.value)
       [] OTHER -> 0

\* The depth of a flattened type.
RECURSIVE ComplexDepth(_)
ComplexDepth(c) ==
  CASE c.kind = "TypeName" -> 0
    [] c.kind = "Pointer" -> 1 + ComplexDepth(c.pointee_type)
    [] c.kind = "Array" -> 1 + ComplexDepth(c.element_type)
    [] c.kind = "Atomic" -> 1 + ComplexDepth(c.value_type)
    [] c.kind = "MemberPointer" ->
         1 + Max2(ComplexDepth(c.class_type), ComplexDepth(c.pointee_type))
    [] c.kind = "Function" ->
         1 + Max2(ComplexDepth(c.return_type),
                  IF c.param_types = <<>> THEN 0 ELSE ComplexDepth(c.param_types[1]))

\* The kind of node each kind of type is classified as.
ClassifiedAs ==
  "array" :> "Array" @@ "memptr" :> "MemberPointer" @@ "pointer" :> "Pointer" @@
  "reference" :> "Pointer" @@ "function" :> "Function" @@ "atomic" :> "Atomic" @@
  "builtin" :> "TypeName" @@ "record" :> "TypeName"

\* The flattened type c follows the type level by level, and a named record is
\* a TypeName leaf holding its name.
RECURSIVE FollowsType(_, _)
FollowsType(c, qualtype) ==
  LET T == getCanonicalType(qualtype)
  IN /\ c.kind = ClassifiedAs[T.k]
     /\ CASE T.k = "array" -> c.size = T.size /\ FollowsType(c.element_type, T.elem)
          [] T.k = "memptr" ->
               FollowsType(c.class_type, T.class) /\ FollowsType(c.pointee_type, T.pointee)
          [] T.k \in {"pointer", "reference"} -> FollowsType(c.pointee_type, T.pointee)
          [] T.k = "function" ->
               /\ Len(c.param_types) = Len(T.params)
               /\ \A i \in 1..Len(T.params) : FollowsType(c.param_types[i], T.params[i])
               /\ FollowsType(c.return_type, T.ret)
          [] T.k = "atomic" -> FollowsType(c.value_type, T.value)
          [] T.k = "record" -> DOMAIN c = {"kind", "name", "is_const", "is_volatile"}
                                 /\ c.name = T.decl.name
          [] OTHER -> DOMAIN c = {"kind", "name", "is_const", "is_volatile"}

\* C21: the flattened type of every emitted member is classified level by
\* level as array, member-pointer, pointer (a reference too), function, atomic
\* or TypeName leaf; a named record is a TypeName leaf with its name and nothing
\* of its definition, also when it is the enclosing record itself; and the
\* depth of the flattened type is the nesting depth of the declared type.
C21_FlattenFollowsNesting ==
  \A r \in Range(records) :
    \A j \in 1..Len(r.fields) :
      IsMember(r.fields[j]) =>
        /\ FollowsType(r.fields[j].data.type, DeclaredType(r, r.fields[j]))
        /\ ComplexDepth(r.fields[j].data.type) = NestingDepth(DeclaredType(r, r.fields[j]))

\* Record A was emitted with a member declared `A **`: the flattened type is a
\* pointer to a pointer to the TypeName leaf "A", of depth 2 like the declared
\* type.
C21_Witness ==
  \E r \in Range(records) :
    \E j \in 1..Len(r.fields) :
      /\ IsMember(r.fields[j])
      /\ r.name = "A"
      /\ r.fields[j].data.type.kind = "Pointer"
      /\ r.fields[j].data.type.pointee_type.kind = "Pointer"
      /\ CanonicalKind(DeclaredType(r, r.fields[j])) = "pointer"
      /\ CanonicalKind(getCanonicalType(DeclaredType(r, r.fields[j])).pointee) = "pointer"
      /\ IsSelf(getCanonicalType(getCanonicalType(DeclaredType(r, r.fields[j])).pointee).pointee)
      /\ r.fields[j].data.type.pointee_type.pointee_type.kind = "TypeName"
      /\ r.fields[j].data.type.pointee_type.pointee_type.name = "A"
      /\ ComplexDepth(r.fields[j].data.type) = 2
      /\ NestingDepth(DeclaredType(r, r.fields[j])) = 2

-----------------------------------------------------------------------------
\* The oracle's component is a destructor entry.
IsDestructorKind(kind) == kind \in {"CK_CompleteDtorPointer", "CK_DeletingDtorPointer"}

\* C22 as claimed: in every emitted vtable, the function_name of a
\* function-pointer-like entry is empty only when the function is a
\* destructor; a function with an identifier gets that identifier; an
\* overloaded operator gets its non-empty token; and distinct operators have
\* distinct tokens.
C22_EmptyNameOnlyForDestructors ==
  /\ \A r \in Range(records) :
       r.vtable # NullVTable =>
         \A i \in 1..Len(r.vtable.components) :
           LET o == DefOf(r).vtableLayout.components[i]
               c == r.vtable.components[i]
           IN IsFunctionKind(o.kind) =>
                /\ c.function_name = "" => IsDestructorKind(o.kind)
                /\ o.func.name # "" => c.function_name = o.func.name
                /\ o.func.operator # "OO_None" =>
                     c.function_name = OperatorTokens[o.func.operator]
  /\ \A a, b \in DOMAIN OperatorTokens :
       OperatorTokens[a] # "" /\ (a # b => OperatorTokens[a] # OperatorTokens[b])

-----------------------------------------------------------------------------
\* The fields of r that are a Base with is_primary set.
PrimaryBaseFields(r) == {j \in 1..Len(r.fields) : IsBase(r.fields[j]) /\ r.fields[j].data.is_primary}
VTablePointerFields(r) == {j \in 1..Len(r.fields) : IsVTablePointer(r.fields[j])}

\* C23 as claimed: with inlining on or off, every emitted Record of a dynamic
\* class has exactly one field that is a VTablePointer or a Base with
\* is_primary set (never both kinds, never neither), and no emitted Record has
\* more than one Base field with is_primary set.
C23_OneVTablePointerOrPrimaryBase ==
  \A r \in Range(records) :
    /\ DefOf(r).isCXX /\ DefOf(r).dynamic =>
         Cardinality(VTablePointerFields(r)) + Cardinality(PrimaryBaseFields(r)) = 1
    /\ Cardinality(PrimaryBaseFields(r)) <= 1

====
